---- MODULE Spec2Model ----
(***************************************************************************)
(* The certification pallet (pallets/certification/src/lib.rs): a registry *)
(* of Certification records kept in the storage map ListOfCertifications,  *)
(* keyed by the hash of the owner's account, with the three dispatchables  *)
(* add_certification, update_certification and remove_certification.       *)
(*                                                                         *)
(* The host (frame_system) is modelled by what the pallet uses of it: the  *)
(* origin of a call, the current block number, and the log of deposited    *)
(* events.  Calls are dispatched one at a time.                            *)
(***************************************************************************)
EXTENDS Integers, Sequences, FiniteSets

VARIABLES
    ListOfCertifications,   \* the storage map: a function from the present keys to records
    events,                 \* the events deposited so far, oldest first
    block_number,           \* frame_system's current block number
    last,                   \* the call dispatched last and the DispatchResult it returned
    other                   \* the storage map and block number of a second run of the
                            \* pallet (used by SpecTwin only; Spec leaves it as it starts)

vars == <<ListOfCertifications, events, block_number, last, other>>

----------------------------------------------------------------------------
(* Bounds of the model. *)

\* Block numbers run from 1 to MaxBlock.
MaxBlock == 2

\* The event log holds at most MaxEvents events.
MaxEvents == 3

----------------------------------------------------------------------------
(* Inputs. *)

\* T::AccountId: two accounts.
Accounts == {1, 2}

\* Vec<u8> arguments: the <<title, description>> pairs that calls pass.  The
\* four byte vectors differ, so that a field written from the wrong argument
\* or kept from the old record shows.
Contents == {<<<<84, 49>>, <<68, 49>>>>, <<<<84, 50>>, <<>>>>}

Titles == {c[1] : c \in Contents}

Descriptions == {c[2] : c \in Contents}

\* A hash that does not depend on the account: every account collides.
hash_of_nothing(who) == (0 * 7 + 3) % 16

\* T::Hashing::hash_of: a collision-resistant hash, modelled as an injective
\* map of the accounts into a larger space of hashes.
hash_of(who) == (who * 7 + 3) % 16

\* T::Hash values passed as certification_id: the hash of every account and
\* one hash that is the hash of no account.
Hashes == {hash_of(a) : a \in Accounts} \cup {0}

\* OriginFor<T>: signed by an account, or not signed.
Signed(who) == [kind |-> "Signed", who |-> who]

Origins == {Signed(a) : a \in Accounts} \cup {[kind |-> "None"]}

\* ensure_signed(origin): Ok(who) for a signed origin, Err(BadOrigin) otherwise.
ensure_signed(origin) == origin.kind = "Signed"

----------------------------------------------------------------------------
(* The Certification struct and the storage map. *)

\* Certification::new with the two block numbers taken in the other order.
Certification_new_swapped_stamps(id, owner_id, title, description, created_at, updated_at) ==
    [id |-> id, owner_id |-> owner_id, title |-> title,
     description |-> description, created_at |-> updated_at,
     updated_at |-> created_at]

\* Certification::new that takes the id from the owner's account.
Certification_new_owner_as_id(id, owner_id, title, description, created_at, updated_at) ==
    [id |-> owner_id, owner_id |-> owner_id, title |-> title,
     description |-> description, created_at |-> created_at,
     updated_at |-> updated_at]

\* Certification::new that stamps created_at with the time of the write.
Certification_new_restamped(id, owner_id, title, description, created_at, updated_at) ==
    [id |-> id, owner_id |-> owner_id, title |-> title,
     description |-> description, created_at |-> updated_at,
     updated_at |-> updated_at]

Certification_new(id, owner_id, title, description, created_at, updated_at) ==
    [id |-> id, owner_id |-> owner_id, title |-> title,
     description |-> description, created_at |-> created_at,
     updated_at |-> updated_at]

get_id(certification) == certification.id

get_owner_id(certification) == certification.owner_id

\* An insert that replaces the whole map by the one entry.
insert_only(map, key, value) == [k \in {key} |-> value]

\* StorageMap::insert: creates the entry or overwrites it.
insert(map, key, value) ==
    [k \in DOMAIN map \cup {key} |-> IF k = key THEN value ELSE map[k]]

\* A remove that deletes nothing.
remove_nothing(map, key) == map

\* StorageMap::remove: deletes the entry, a no-op when absent.
remove(map, key) == [k \in DOMAIN map \ {key} |-> map[k]]

\* StorageMap::get(key) is Some(map[key]) when contains_key, None otherwise.
contains_key(map, key) == key \in DOMAIN map

----------------------------------------------------------------------------
(* Events. *)

\* A CertificationStored that carries no block number.
CertificationStored_unstamped(who, certification_id, created_at) ==
    [event |-> "CertificationStored", who |-> who,
     certification_id |-> certification_id, created_at |-> 0]

CertificationStored(who, certification_id, created_at) ==
    [event |-> "CertificationStored", who |-> who,
     certification_id |-> certification_id, created_at |-> created_at]

CertificationUpdated(who, certification_id, updated_at) ==
    [event |-> "CertificationUpdated", who |-> who,
     certification_id |-> certification_id, updated_at |-> updated_at]

CertificationRemoved(who, certification_id) ==
    [event |-> "CertificationRemoved", who |-> who,
     certification_id |-> certification_id]

\* A deposit_event that deposits nothing.
deposit_event_nothing(event) == events

\* A deposit_event that deposits the event twice.
deposit_event_twice(event) == Append(Append(events, event), event)

deposit_event(event) == Append(events, event)

----------------------------------------------------------------------------
(* Dispatchables.  A call that returns an error leaves storage and the     *)
(* event log as they were; only the returned DispatchResult is recorded.   *)

\* What `last` records of a call: its name, origin, the certification_id
\* argument (update and remove; <<>> for add) and the DispatchResult.
Returned(call, origin, args, result) ==
    [call |-> call, origin |-> origin, args |-> args, result |-> result]

\* An early return with an error (`?` and `ensure!`): nothing is written.
Err(returned) ==
    /\ last' = returned
    /\ UNCHANGED <<ListOfCertifications, events, block_number>>

\* add_certification that refuses to overwrite an existing record.
add_certification_if_absent(origin, title, description) ==
    IF ~ensure_signed(origin)
    THEN Err(Returned("add_certification", origin, <<>>, "BadOrigin"))
    ELSE LET who == origin.who IN
    IF contains_key(ListOfCertifications, hash_of(who))
    THEN Err(Returned("add_certification", origin, <<>>, "AlreadyExists"))
    ELSE /\ ListOfCertifications' =
                insert(ListOfCertifications, hash_of(who),
                       Certification_new(hash_of(who), who, title, description,
                                         block_number, block_number))
         /\ events' = deposit_event(
                CertificationStored(who, hash_of(who), block_number))
         /\ last' = Returned("add_certification", origin, <<>>, "Ok")
         /\ UNCHANGED block_number

add_certification(origin, title, description) ==
    IF ~ensure_signed(origin)
    THEN Err(Returned("add_certification", origin, <<>>, "BadOrigin"))
    ELSE LET who == origin.who
             block == block_number IN
         /\ ListOfCertifications' =
                insert(ListOfCertifications, hash_of(who),
                       Certification_new(hash_of(who), who, title, description,
                                         block, block))
         /\ events' = deposit_event(CertificationStored(who, hash_of(who), block))
         /\ last' = Returned("add_certification", origin, <<>>, "Ok")
         /\ UNCHANGED block_number

\* The storage write and the event of a successful update_certification.
update_write(origin, who, certification_id, title, description, certification) ==
    LET block == block_number IN
    /\ ListOfCertifications' =
           insert(ListOfCertifications, certification_id,
                  Certification_new(certification_id, who, title, description,
                                    certification.created_at, block))
    /\ events' = deposit_event(
           CertificationUpdated(who, certification_id, block))
    /\ last' = Returned("update_certification", origin, <<certification_id>>, "Ok")
    /\ UNCHANGED block_number

\* update_certification without the ensure! on the owner.
update_certification_no_owner_check(origin, certification_id, title, description) ==
    IF ~ensure_signed(origin)
    THEN Err(Returned("update_certification", origin, <<certification_id>>,
                      "BadOrigin"))
    ELSE IF ~contains_key(ListOfCertifications, certification_id)
    THEN Err(Returned("update_certification", origin, <<certification_id>>,
                      "CertificationNotFound"))
    ELSE update_write(origin, origin.who, certification_id, title, description,
                      ListOfCertifications[certification_id])

\* update_certification that reports a missing record as NotOwner.
update_certification_owner_first(origin, certification_id, title, description) ==
    IF ~ensure_signed(origin)
    THEN Err(Returned("update_certification", origin, <<certification_id>>,
                      "BadOrigin"))
    ELSE IF \/ ~contains_key(ListOfCertifications, certification_id)
            \/ get_owner_id(ListOfCertifications[certification_id]) # origin.who
    THEN Err(Returned("update_certification", origin, <<certification_id>>,
                      "NotOwner"))
    ELSE update_write(origin, origin.who, certification_id, title, description,
                      ListOfCertifications[certification_id])

update_certification(origin, certification_id, title, description) ==
    IF ~ensure_signed(origin)
    THEN Err(Returned("update_certification", origin, <<certification_id>>,
                      "BadOrigin"))
    ELSE LET who == origin.who IN
    IF ~contains_key(ListOfCertifications, certification_id)
    THEN Err(Returned("update_certification", origin, <<certification_id>>,
                      "CertificationNotFound"))
    ELSE LET certification == ListOfCertifications[certification_id] IN
    IF get_owner_id(certification) # who
    THEN Err(Returned("update_certification", origin, <<certification_id>>,
                      "NotOwner"))
    ELSE update_write(origin, who, certification_id, title, description,
                      certification)

\* The storage write and the event of a successful remove_certification.
remove_write(origin, who, certification_id) ==
    /\ ListOfCertifications' = remove(ListOfCertifications, certification_id)
    /\ events' = deposit_event(CertificationRemoved(who, certification_id))
    /\ last' = Returned("remove_certification", origin, <<certification_id>>, "Ok")
    /\ UNCHANGED block_number

\* remove_certification without the ensure! on the owner.
remove_certification_no_owner_check(origin, certification_id) ==
    IF ~ensure_signed(origin)
    THEN Err(Returned("remove_certification", origin, <<certification_id>>,
                      "BadOrigin"))
    ELSE IF ~contains_key(ListOfCertifications, certification_id)
    THEN Err(Returned("remove_certification", origin, <<certification_id>>,
                      "CertificationNotFound"))
    ELSE remove_write(origin, origin.who, certification_id)

\* remove_certification without the lookup: a missing record is removed
\* (a no-op of the map) and reported as removed.
remove_certification_no_lookup(origin, certification_id) ==
    IF ~ensure_signed(origin)
    THEN Err(Returned("remove_certification", origin, <<certification_id>>,
                      "BadOrigin"))
    ELSE IF /\ contains_key(ListOfCertifications, certification_id)
            /\ get_owner_id(ListOfCertifications[certification_id]) # origin.who
    THEN Err(Returned("remove_certification", origin, <<certification_id>>,
                      "NotOwner"))
    ELSE remove_write(origin, origin.who, certification_id)

remove_certification(origin, certification_id) ==
    IF ~ensure_signed(origin)
    THEN Err(Returned("remove_certification", origin, <<certification_id>>,
                      "BadOrigin"))
    ELSE LET who == origin.who IN
    IF ~contains_key(ListOfCertifications, certification_id)
    THEN Err(Returned("remove_certification", origin, <<certification_id>>,
                      "CertificationNotFound"))
    ELSE LET certification == ListOfCertifications[certification_id] IN
    IF get_owner_id(certification) # who
    THEN Err(Returned("remove_certification", origin, <<certification_id>>,
                      "NotOwner"))
    ELSE remove_write(origin, who, certification_id)

\* The host moves on to the next block.
next_block ==
    /\ block_number < MaxBlock
    /\ block_number' = block_number + 1
    /\ UNCHANGED <<ListOfCertifications, events, last>>

----------------------------------------------------------------------------
(* The specification. *)

Init ==
    /\ ListOfCertifications = <<>>
    /\ events = <<>>
    /\ block_number = 1
    /\ last = [call |-> "none", result |-> "none"]
    /\ other = [ListOfCertifications |-> <<>>, block_number |-> 1]

\* The host dispatches a call: any origin, any arguments.  The model stops
\* dispatching calls that would grow the event log beyond MaxEvents.
Add ==
    \E origin \in Origins, content \in Contents :
       /\ add_certification(origin, content[1], content[2])
       /\ Len(events') <= MaxEvents
       /\ UNCHANGED other

Update ==
    \E origin \in Origins, certification_id \in Hashes, content \in Contents :
       /\ update_certification(origin, certification_id, content[1], content[2])
       /\ Len(events') <= MaxEvents
       /\ UNCHANGED other

Remove ==
    \E origin \in Origins, certification_id \in Hashes :
       /\ remove_certification(origin, certification_id)
       /\ Len(events') <= MaxEvents
       /\ UNCHANGED other

NextBlock == next_block /\ UNCHANGED other

Next == Add \/ Update \/ Remove \/ NextBlock

Spec == Init /\ [][Next]_vars

----------------------------------------------------------------------------
(* Two runs.  The dispatchables as functions of the state they run on: the  *)
(* storage map and block number of `run`, giving the storage map after the  *)
(* call, the events it deposits and the DispatchResult.  SpecTwin runs the  *)
(* pallet twice from the empty storage, the second run on `other`, each     *)
(* with its own calls, arguments and block numbers, and keeps the pairs of  *)
(* runs that deposit the same events.  A call that returns an error changes *)
(* neither the storage map nor the log, so SpecTwin dispatches only the     *)
(* calls that deposit an event.                                             *)

Outcome(map, deposited, result) ==
    [ListOfCertifications |-> map, deposited |-> deposited, result |-> result]

add_certification_on(run, origin, title, description) ==
    IF ~ensure_signed(origin)
    THEN Outcome(run.ListOfCertifications, <<>>, "BadOrigin")
    ELSE LET who == origin.who
             block == run.block_number IN
         Outcome(insert(run.ListOfCertifications, hash_of(who),
                        Certification_new(hash_of(who), who, title, description,
                                          block, block)),
                 <<CertificationStored(who, hash_of(who), block)>>, "Ok")

update_certification_on(run, origin, certification_id, title, description) ==
    IF ~ensure_signed(origin)
    THEN Outcome(run.ListOfCertifications, <<>>, "BadOrigin")
    ELSE LET who == origin.who IN
    IF ~contains_key(run.ListOfCertifications, certification_id)
    THEN Outcome(run.ListOfCertifications, <<>>, "CertificationNotFound")
    ELSE LET certification == run.ListOfCertifications[certification_id] IN
    IF get_owner_id(certification) # who
    THEN Outcome(run.ListOfCertifications, <<>>, "NotOwner")
    ELSE LET block == run.block_number IN
         Outcome(insert(run.ListOfCertifications, certification_id,
                        Certification_new(certification_id, who, title,
                                          description, certification.created_at,
                                          block)),
                 <<CertificationUpdated(who, certification_id, block)>>, "Ok")

remove_certification_on(run, origin, certification_id) ==
    IF ~ensure_signed(origin)
    THEN Outcome(run.ListOfCertifications, <<>>, "BadOrigin")
    ELSE LET who == origin.who IN
    IF ~contains_key(run.ListOfCertifications, certification_id)
    THEN Outcome(run.ListOfCertifications, <<>>, "CertificationNotFound")
    ELSE LET certification == run.ListOfCertifications[certification_id] IN
    IF get_owner_id(certification) # who
    THEN Outcome(run.ListOfCertifications, <<>>, "NotOwner")
    ELSE Outcome(remove(run.ListOfCertifications, certification_id),
                 <<CertificationRemoved(who, certification_id)>>, "Ok")

\* The outcomes of every call the host can dispatch on `run`.
Outcomes(run) ==
    {add_certification_on(run, origin, c[1], c[2]) :
        origin \in Origins, c \in Contents}
    \cup {update_certification_on(run, origin, id, c[1], c[2]) :
        origin \in Origins, id \in Hashes, c \in Contents}
    \cup {remove_certification_on(run, origin, id) :
        origin \in Origins, id \in Hashes}

\* The second run makes a call that deposits what this step has deposited.
OtherDepositsTheSame ==
    /\ Len(events') = Len(events) + 1
    /\ Len(events') <= MaxEvents
    /\ \E o \in Outcomes(other) :
          /\ o.deposited = <<events'[Len(events')]>>
          /\ other' = [other EXCEPT !.ListOfCertifications = o.ListOfCertifications]

TwinAdd ==
    \E origin \in Origins, content \in Contents :
       /\ add_certification(origin, content[1], content[2])
       /\ OtherDepositsTheSame

TwinUpdate ==
    \E origin \in Origins, certification_id \in Hashes, content \in Contents :
       /\ update_certification(origin, certification_id, content[1], content[2])
       /\ OtherDepositsTheSame

TwinRemove ==
    \E origin \in Origins, certification_id \in Hashes :
       /\ remove_certification(origin, certification_id)
       /\ OtherDepositsTheSame

\* The second run's host moves on to the next block.
OtherNextBlock ==
    /\ other.block_number < MaxBlock
    /\ other' = [other EXCEPT !.block_number = other.block_number + 1]
    /\ UNCHANGED <<ListOfCertifications, events, block_number, last>>

NextTwin == TwinAdd \/ TwinUpdate \/ TwinRemove \/ NextBlock \/ OtherNextBlock

SpecTwin == Init /\ [][NextTwin]_vars

\* The functions give what the actions do: a step of a call on the first
\* run writes the storage map, deposits the events and returns the result
\* that the function of the call gives for the first run's state.
FunctionsAgreeWithActions ==
    [][LET run == [ListOfCertifications |-> ListOfCertifications,
                   block_number |-> block_number]
           Same(o) == /\ ListOfCertifications' = o.ListOfCertifications
                      /\ events' = events \o o.deposited
                      /\ last'.result = o.result
       IN  \A origin \in Origins :
              /\ \A c \in Contents :
                    ( /\ last'.call = "add_certification"
                      /\ last'.origin = origin
                      /\ add_certification(origin, c[1], c[2]) )
                    => Same(add_certification_on(run, origin, c[1], c[2]))
              /\ \A id \in Hashes, c \in Contents :
                    ( /\ last'.call = "update_certification"
                      /\ last'.origin = origin
                      /\ last'.args = <<id>>
                      /\ update_certification(origin, id, c[1], c[2]) )
                    => Same(update_certification_on(run, origin, id, c[1], c[2]))
              /\ \A id \in Hashes :
                    ( /\ last'.call = "remove_certification"
                      /\ last'.origin = origin
                      /\ last'.args = <<id>>
                      /\ remove_certification(origin, id) )
                    => Same(remove_certification_on(run, origin, id))]_vars

----------------------------------------------------------------------------
(* Steps.  A step of the specification is a call when it satisfies the      *)
(* call's action; `last` then names the call, its origin and its            *)
(* certification_id, which is tested first.                                 *)

AddStep(origin, title, description) ==
    /\ last'.call = "add_certification"
    /\ last'.origin = origin
    /\ add_certification(origin, title, description)

UpdateStep(origin, certification_id, title, description) ==
    /\ last'.call = "update_certification"
    /\ last'.origin = origin
    /\ last'.args = <<certification_id>>
    /\ update_certification(origin, certification_id, title, description)

RemoveStep(origin, certification_id) ==
    /\ last'.call = "remove_certification"
    /\ last'.origin = origin
    /\ last'.args = <<certification_id>>
    /\ remove_certification(origin, certification_id)

----------------------------------------------------------------------------
(* Properties of the failure paths. *)

\* C1: a step update_certification(caller, id, title, description) taken when
\* a record exists at id whose owner_id differs from the caller returns
\* NotOwner, leaves the storage map exactly as it was (so the record keeps
\* its title, description, owner_id, created_at and updated_at) and deposits
\* no event.
C1_UpdateByNonOwnerFails ==
    [][\A caller \in Accounts, id \in Hashes, c \in Contents :
          ( /\ contains_key(ListOfCertifications, id)
            /\ ListOfCertifications[id].owner_id # caller
            /\ UpdateStep(Signed(caller), id, c[1], c[2]) )
          => /\ last'.result = "NotOwner"
             /\ ListOfCertifications' = ListOfCertifications
             /\ events' = events]_vars

\* An update_certification by a non-owner has just returned NotOwner for a
\* record that exists.
C1_Witness ==
    /\ last.call = "update_certification"
    /\ last.result = "NotOwner"
    /\ contains_key(ListOfCertifications, last.args[1])
    /\ ListOfCertifications[last.args[1]].owner_id # last.origin.who

\* C2: a step update_certification(caller, id, title, description) taken when
\* no record exists at id returns CertificationNotFound whoever the caller
\* is (never NotOwner), leaves the storage map unchanged and deposits no event.
C2_UpdateOfMissingFails ==
    [][\A caller \in Accounts, id \in Hashes, c \in Contents :
          ( /\ ~contains_key(ListOfCertifications, id)
            /\ UpdateStep(Signed(caller), id, c[1], c[2]) )
          => /\ last'.result = "CertificationNotFound"
             /\ ListOfCertifications' = ListOfCertifications
             /\ events' = events]_vars

\* An update_certification has just returned CertificationNotFound for an id
\* that is not the caller's own while the caller's own record exists.
C2_Witness ==
    /\ last.call = "update_certification"
    /\ last.result = "CertificationNotFound"
    /\ ~contains_key(ListOfCertifications, last.args[1])
    /\ last.args[1] # hash_of(last.origin.who)
    /\ contains_key(ListOfCertifications, hash_of(last.origin.who))

\* C3: a step remove_certification(caller, id) taken when a record exists at
\* id whose owner_id differs from the caller returns NotOwner, leaves the
\* record in the storage map unchanged and deposits no event.
C3_RemoveByNonOwnerFails ==
    [][\A caller \in Accounts, id \in Hashes :
          ( /\ contains_key(ListOfCertifications, id)
            /\ ListOfCertifications[id].owner_id # caller
            /\ RemoveStep(Signed(caller), id) )
          => /\ last'.result = "NotOwner"
             /\ contains_key(ListOfCertifications', id)
             /\ ListOfCertifications' = ListOfCertifications
             /\ events' = events]_vars

\* A remove_certification by a non-owner has just returned NotOwner for a
\* record that exists.
C3_Witness ==
    /\ last.call = "remove_certification"
    /\ last.result = "NotOwner"
    /\ contains_key(ListOfCertifications, last.args[1])
    /\ ListOfCertifications[last.args[1]].owner_id # last.origin.who

\* C4: a step remove_certification(caller, id) taken when no record exists
\* at id returns CertificationNotFound whoever the caller is, leaves the
\* storage map unchanged and deposits no event.
C4_RemoveOfMissingFails ==
    [][\A caller \in Accounts, id \in Hashes :
          ( /\ ~contains_key(ListOfCertifications, id)
            /\ RemoveStep(Signed(caller), id) )
          => /\ last'.result = "CertificationNotFound"
             /\ ListOfCertifications' = ListOfCertifications
             /\ events' = events]_vars

\* A remove_certification has just returned CertificationNotFound while
\* another record is in the storage map.
C4_Witness ==
    /\ last.call = "remove_certification"
    /\ last.result = "CertificationNotFound"
    /\ ~contains_key(ListOfCertifications, last.args[1])
    /\ DOMAIN ListOfCertifications # {}

----------------------------------------------------------------------------
(* Properties of the successful paths. *)

\* C5: a step add_certification(caller, title, description) at block number
\* now returns Ok in every reachable state, whether or not a record already
\* exists at hash_of(caller); afterwards the storage map holds at
\* hash_of(caller) exactly the record {id: hash_of(caller), owner_id: caller,
\* title, description, created_at: now, updated_at: now}, and exactly one
\* record of the map is owned by the caller (so a second add by the same
\* caller leaves one record, carrying the second call's title and
\* description).
C5_AddAlwaysStores ==
    [][\A caller \in Accounts, c \in Contents :
          AddStep(Signed(caller), c[1], c[2])
          => /\ last'.result = "Ok"
             /\ contains_key(ListOfCertifications', hash_of(caller))
             /\ ListOfCertifications'[hash_of(caller)] =
                    [id |-> hash_of(caller), owner_id |-> caller,
                     title |-> c[1], description |-> c[2],
                     created_at |-> block_number, updated_at |-> block_number]
             /\ Cardinality({k \in DOMAIN ListOfCertifications' :
                    ListOfCertifications'[k].owner_id = caller}) = 1]_vars

\* A second add_certification by the same caller, in a later block than the
\* first and with another title, has just overwritten the caller's record.
C5_Witness ==
    /\ last.call = "add_certification"
    /\ last.result = "Ok"
    /\ Len(events) = 2
    /\ events[1].event = "CertificationStored"
    /\ events[2].event = "CertificationStored"
    /\ events[2].who = events[1].who
    /\ events[2].created_at > events[1].created_at
    /\ ListOfCertifications[events[2].certification_id].created_at =
           events[2].created_at
    /\ ListOfCertifications[events[2].certification_id].title = <<84, 50>>

\* C6: a step update_certification(caller, id, title, description) at block
\* number now taken when a record exists at id whose owner_id is the caller
\* returns Ok, and the record at id afterwards has the new title and
\* description and updated_at = now, with the id, owner_id and created_at
\* it had before the call.
C6_UpdateByOwnerRewrites ==
    [][\A caller \in Accounts, id \in Hashes, c \in Contents :
          ( /\ contains_key(ListOfCertifications, id)
            /\ ListOfCertifications[id].owner_id = caller
            /\ UpdateStep(Signed(caller), id, c[1], c[2]) )
          => /\ last'.result = "Ok"
             /\ contains_key(ListOfCertifications', id)
             /\ ListOfCertifications'[id].title = c[1]
             /\ ListOfCertifications'[id].description = c[2]
             /\ ListOfCertifications'[id].updated_at = block_number
             /\ ListOfCertifications'[id].id = ListOfCertifications[id].id
             /\ ListOfCertifications'[id].owner_id = ListOfCertifications[id].owner_id
             /\ ListOfCertifications'[id].created_at =
                    ListOfCertifications[id].created_at]_vars

\* An update_certification by the owner has just succeeded in a later block
\* than the one the record was created in.
C6_Witness ==
    /\ last.call = "update_certification"
    /\ last.result = "Ok"
    /\ contains_key(ListOfCertifications, last.args[1])
    /\ LET c == ListOfCertifications[last.args[1]] IN
       /\ c.owner_id = last.origin.who
       /\ c.created_at < c.updated_at
       /\ c.updated_at = block_number

\* C7: a step remove_certification(caller, id) taken when a record exists at
\* id whose owner_id is the caller returns Ok and leaves no record at id;
\* and while no record exists at id, every update_certification and
\* remove_certification on id returns CertificationNotFound, and the only
\* step after which a record exists at id again is a successful
\* add_certification by the account whose hash is id.
C7_RemovedStaysRemoved ==
    [][\A id \in Hashes :
          /\ \A caller \in Accounts :
                ( /\ contains_key(ListOfCertifications, id)
                  /\ ListOfCertifications[id].owner_id = caller
                  /\ RemoveStep(Signed(caller), id) )
                => /\ last'.result = "Ok"
                   /\ ~contains_key(ListOfCertifications', id)
          /\ ~contains_key(ListOfCertifications, id)
             => /\ \A caller \in Accounts, c \in Contents :
                      UpdateStep(Signed(caller), id, c[1], c[2])
                      => /\ last'.result = "CertificationNotFound"
                         /\ ~contains_key(ListOfCertifications', id)
                /\ \A caller \in Accounts :
                      RemoveStep(Signed(caller), id)
                      => /\ last'.result = "CertificationNotFound"
                         /\ ~contains_key(ListOfCertifications', id)
                /\ contains_key(ListOfCertifications', id)
                   => \E caller \in Accounts, c \in Contents :
                         /\ hash_of(caller) = id
                         /\ AddStep(Signed(caller), c[1], c[2])
                         /\ last'.result = "Ok"]_vars

\* After the owner removed the record (the last event), an update or a
\* remove on the same id has returned CertificationNotFound.
C7_Witness ==
    /\ last.call \in {"update_certification", "remove_certification"}
    /\ last.result = "CertificationNotFound"
    /\ Len(events) >= 2
    /\ events[Len(events)].event = "CertificationRemoved"
    /\ events[Len(events)].certification_id = last.args[1]
    /\ ~contains_key(ListOfCertifications, last.args[1])

\* C8: every call that returns Ok appends exactly one event to the log, of
\* the kind of the call: add_certification appends CertificationStored{who:
\* caller, certification_id: hash_of(caller), created_at: now},
\* update_certification appends CertificationUpdated{who: caller,
\* certification_id: id, updated_at: now}, remove_certification appends
\* CertificationRemoved{who: caller, certification_id: id}; every call that
\* returns an error leaves the log as it was.
C8_OneEventPerSuccess ==
    [][\A origin \in Origins :
          /\ \A c \in Contents :
                AddStep(origin, c[1], c[2])
                => IF last'.result = "Ok"
                   THEN events' = events \o
                            <<[event |-> "CertificationStored",
                               who |-> origin.who,
                               certification_id |-> hash_of(origin.who),
                               created_at |-> block_number]>>
                   ELSE events' = events
          /\ \A id \in Hashes, c \in Contents :
                UpdateStep(origin, id, c[1], c[2])
                => IF last'.result = "Ok"
                   THEN events' = events \o
                            <<[event |-> "CertificationUpdated",
                               who |-> origin.who, certification_id |-> id,
                               updated_at |-> block_number]>>
                   ELSE events' = events
          /\ \A id \in Hashes :
                RemoveStep(origin, id)
                => IF last'.result = "Ok"
                   THEN events' = events \o
                            <<[event |-> "CertificationRemoved",
                               who |-> origin.who, certification_id |-> id]>>
                   ELSE events' = events]_vars

\* The log holds one event of each of the three kinds, in the order add,
\* update, remove, and a call has failed since.
C8_Witness ==
    /\ Len(events) = 3
    /\ events[1].event = "CertificationStored"
    /\ events[2].event = "CertificationUpdated"
    /\ events[3].event = "CertificationRemoved"
    /\ last.result \in {"NotOwner", "CertificationNotFound", "BadOrigin"}

\* C9: in any step that changes or removes a record that existed before the
\* step, the call returned Ok and its signed caller is that record's
\* owner_id; in particular a step add_certification(caller, ...) taken when
\* a record exists at hash_of(caller) finds that record owned by the caller.
C9_OnlyOwnerMutates ==
    [][/\ \A k \in DOMAIN ListOfCertifications :
             ( \/ ~contains_key(ListOfCertifications', k)
               \/ ListOfCertifications'[k] # ListOfCertifications[k] )
             => /\ last'.result = "Ok"
                /\ last'.origin = Signed(ListOfCertifications[k].owner_id)
       /\ \A caller \in Accounts, c \in Contents :
             ( /\ contains_key(ListOfCertifications, hash_of(caller))
               /\ AddStep(Signed(caller), c[1], c[2]) )
             => ListOfCertifications[hash_of(caller)].owner_id = caller]_vars

\* An add_certification has just overwritten the caller's earlier record
\* while a record of another account is in the storage map.
C9_Witness ==
    /\ last.call = "add_certification"
    /\ last.result = "Ok"
    /\ Len(events) = 3
    /\ events[3].event = "CertificationStored"
    /\ events[3].who = last.origin.who
    /\ \E i \in 1..2 : /\ events[i].event = "CertificationStored"
                       /\ events[i].who = last.origin.who
    /\ \E k \in DOMAIN ListOfCertifications :
          ListOfCertifications[k].owner_id # last.origin.who

\* C10: no step changes the created_at of a record that exists at the same
\* id both before and after the step.
C10_CreatedAtNeverChanges ==
    [][\A k \in DOMAIN ListOfCertifications \cap DOMAIN ListOfCertifications' :
          ListOfCertifications'[k].created_at =
              ListOfCertifications[k].created_at]_vars

----------------------------------------------------------------------------
(* Properties of the records and of the log. *)

\* C11: in every reachable state every record of the storage map has
\* created_at <= updated_at, the block numbers being those the host holds at
\* each call (which never decrease).
C11_CreatedBeforeUpdated ==
    \A k \in DOMAIN ListOfCertifications :
       ListOfCertifications[k].created_at <= ListOfCertifications[k].updated_at

\* A record updated in a later block than the one it was created in.
C11_Witness ==
    /\ last.call = "update_certification"
    /\ last.result = "Ok"
    /\ \E k \in DOMAIN ListOfCertifications :
          /\ ListOfCertifications[k].created_at < ListOfCertifications[k].updated_at
          /\ ListOfCertifications[k].updated_at = MaxBlock

\* C12: in every step, an id that goes from absent to present does so in a
\* successful add_certification, a record whose fields change does so in a
\* successful update_certification, and an id that goes from present to
\* absent does so in a successful remove_certification.
C12_Lifecycle ==
    [][\A k \in Hashes :
          /\ ( /\ ~contains_key(ListOfCertifications, k)
               /\ contains_key(ListOfCertifications', k) )
             => /\ last'.call = "add_certification"
                /\ last'.result = "Ok"
          /\ ( /\ contains_key(ListOfCertifications, k)
               /\ contains_key(ListOfCertifications', k)
               /\ ListOfCertifications'[k] # ListOfCertifications[k] )
             => /\ last'.call = "update_certification"
                /\ last'.result = "Ok"
          /\ ( /\ contains_key(ListOfCertifications, k)
               /\ ~contains_key(ListOfCertifications', k) )
             => /\ last'.call = "remove_certification"
                /\ last'.result = "Ok"]_vars

\* C13: in every reachable state, for every account a at most one record of
\* the storage map has owner_id a, and that record is stored under the key
\* hash_of(a).
C13_OneRecordPerOwner ==
    \A a \in Accounts :
       LET owned == {k \in DOMAIN ListOfCertifications :
                        ListOfCertifications[k].owner_id = a}
       IN  /\ Cardinality(owned) <= 1
           /\ owned \subseteq {hash_of(a)}

\* Both accounts hold a record, and the last call rewrote one of them.
C13_Witness ==
    /\ \A a \in Accounts :
          /\ contains_key(ListOfCertifications, hash_of(a))
          /\ ListOfCertifications[hash_of(a)].owner_id = a
    /\ last.result = "Ok"
    /\ Len(events) = 3

\* What the events carry of a storage map: which ids hold a record, and
\* each record's id, owner_id, created_at and updated_at.
Carried(map) ==
    [k \in DOMAIN map |->
        [id |-> map[k].id, owner_id |-> map[k].owner_id,
         created_at |-> map[k].created_at, updated_at |-> map[k].updated_at]]

\* C14 as stated: two runs of calls from the empty storage that have
\* deposited the same sequence of events hold identical storage maps (every
\* record equal in id, owner_id, title, description, created_at and
\* updated_at).
C14_EventsDetermineStore ==
    other.ListOfCertifications = ListOfCertifications

\* C14 as amended: two runs of calls from the empty storage that have
\* deposited the same sequence of events hold records at the same ids, and
\* the records at each id are equal in id, owner_id, created_at and
\* updated_at (their title and description may differ).
C14_EventsDetermineCarried ==
    Carried(other.ListOfCertifications) = Carried(ListOfCertifications)

\* Two runs that deposited the same three events, the second run's calls
\* made with other arguments than the first's: the two storage maps hold a
\* record at the same id, with different titles.
C14_Witness ==
    /\ Len(events) = 3
    /\ events[3].event = "CertificationUpdated"
    /\ \E k \in DOMAIN ListOfCertifications :
          /\ contains_key(other.ListOfCertifications, k)
          /\ other.ListOfCertifications[k].title # ListOfCertifications[k].title
          /\ ListOfCertifications[k].created_at < ListOfCertifications[k].updated_at

\* C15: in every reachable state every record stored under a key k has its
\* id field equal to k, and no step changes the id of a record that stays in
\* the storage map.
C15_IdIsKey ==
    /\ [](\A k \in DOMAIN ListOfCertifications :
             get_id(ListOfCertifications[k]) = k)
    /\ [][\A k \in DOMAIN ListOfCertifications \cap DOMAIN ListOfCertifications' :
             get_id(ListOfCertifications'[k]) = get_id(ListOfCertifications[k])]_vars

\* A record written by add_certification and rewritten by
\* update_certification is in the storage map.
C15_Witness ==
    /\ last.call = "update_certification"
    /\ last.result = "Ok"
    /\ contains_key(ListOfCertifications, last.args[1])
    /\ \E i \in 1..Len(events) :
          /\ events[i].event = "CertificationStored"
          /\ events[i].certification_id = last.args[1]

\* C16: a step add_certification(caller, ...) leaves every key other than
\* hash_of(caller) as it was (absent, or present with the same record), and
\* a step update_certification(caller, id, ...) or remove_certification(
\* caller, id) leaves every key other than id as it was, whatever the call
\* returns.
C16_OneKeyTouched ==
    [][\A origin \in Origins :
          LET Untouched(key) ==
                 \A k \in Hashes \ {key} :
                    /\ contains_key(ListOfCertifications', k)
                           = contains_key(ListOfCertifications, k)
                    /\ contains_key(ListOfCertifications, k)
                       => ListOfCertifications'[k] = ListOfCertifications[k]
          IN  /\ \A c \in Contents :
                    AddStep(origin, c[1], c[2])
                    => IF ensure_signed(origin)
                       THEN Untouched(hash_of(origin.who))
                       ELSE ListOfCertifications' = ListOfCertifications
              /\ \A id \in Hashes, c \in Contents :
                    UpdateStep(origin, id, c[1], c[2]) => Untouched(id)
              /\ \A id \in Hashes :
                    RemoveStep(origin, id) => Untouched(id)]_vars

\* A call has just written or removed one account's record while the other
\* account's record is in the storage map.
C16_Witness ==
    /\ last.result = "Ok"
    /\ Len(events) = 3
    /\ \E a \in Accounts :
          /\ a # last.origin.who
          /\ contains_key(ListOfCertifications, hash_of(a))
          /\ events[1].who = a

\* The last event of one of the given kinds that the log holds for an id
\* (0 when there is none).
LastEventOf(id, kinds) ==
    LET at == {i \in 1..Len(events) :
                  /\ events[i].certification_id = id
                  /\ events[i].event \in kinds}
    IN  IF at = {} THEN 0 ELSE CHOOSE i \in at : \A j \in at : j <= i

\* C17: in every reachable state a record exists at id exactly when the log
\* holds a CertificationStored or CertificationRemoved event for id and the
\* last of them is a CertificationStored; and the record's updated_at is
\* the block number carried by the last CertificationStored or
\* CertificationUpdated event for id, and its owner_id is that event's who.
C17_StoreAgreesWithLog ==
    \A id \in Hashes :
       LET life == LastEventOf(id, {"CertificationStored", "CertificationRemoved"})
           write == LastEventOf(id, {"CertificationStored", "CertificationUpdated"})
       IN  /\ contains_key(ListOfCertifications, id)
              <=> ( /\ life > 0
                    /\ events[life].event = "CertificationStored" )
           /\ contains_key(ListOfCertifications, id)
              => /\ write > 0
                 /\ ListOfCertifications[id].owner_id = events[write].who
                 /\ ListOfCertifications[id].updated_at =
                        IF events[write].event = "CertificationStored"
                        THEN events[write].created_at
                        ELSE events[write].updated_at

\* A record that was stored, removed, and stored again in a later block.
C17_Witness ==
    /\ Len(events) = 3
    /\ events[1].event = "CertificationStored"
    /\ events[2].event = "CertificationRemoved"
    /\ events[3].event = "CertificationStored"
    /\ events[3].certification_id = events[2].certification_id
    /\ contains_key(ListOfCertifications, events[3].certification_id)
    /\ ListOfCertifications[events[3].certification_id].updated_at = MaxBlock

====
